---- MODULE Spec2Model ----
(***************************************************************************)
(* Model of create_map_image.py: a batch script that resolves fonts,       *)
(* reprojects housing polygons and a goat-farm point to Web Mercator,      *)
(* buffers the point into a risk zone, labels every polygon with the       *)
(* share of its area inside the zone, fetches a basemap and saves one PNG. *)
(*                                                                         *)
(* Geometry is exact and planar on an integer lattice.  A housing polygon  *)
(* is a closed coordinate ring (here: axis-aligned rectangles); the risk   *)
(* zone is the polygonal disc approximation returned by buffer(), held as  *)
(* the set of unit cells it covers.  Areas, ratios and centroids are exact *)
(* rationals <<numerator, denominator>> in lowest terms; floating-point    *)
(* rounding of the Python floats is not represented.                       *)
(***************************************************************************)
EXTENDS Integers, Sequences, FiniteSets, TLC

VARIABLES
    pc,                     \* position of the script
    available,              \* installed font names (fm.fontManager.ttflist)
    fonts,                  \* FONT_LOGO .. FONT_MONO once resolved
    polygons,               \* the polygons dict: name -> [coords]
    GOAT_FARM,              \* the goat farm point, lon/lat
    gdf_polygons_mercator,  \* [crs, rows] after to_crs; crs "none" before
    goat_point,             \* [crs, xy] after to_crs
    circle_geometry,        \* [crs, cells] after buffer
    idx,                    \* row index of the iterrows loop
    ax_texts,               \* percentage labels drawn with ax.text
    computedOn,             \* crs pairs on which an intersection was computed
    outfile,                \* the file at output_path
    writes,                 \* number of writes of the output file in this run
    stdout,                 \* lines printed
    log,                    \* phases entered, in order
    failed                  \* an external collaborator raised

vars == <<pc, available, fonts, polygons, GOAT_FARM, gdf_polygons_mercator,
          goat_point, circle_geometry, idx, ax_texts, computedOn, outfile,
          writes, stdout, log, failed>>

----------------------------------------------------------------------------
(* Bounds of the input domain *)

MaxLon == 1
MaxLat == 1
FarLon == 121
MaxGoat == 2

(* Program constants *)

\* buffer(1000): the zone radius, in lattice units of the projected plane
BufferRadius == 2
\* to_crs(epsg=3857): metres per degree of longitude and of latitude, in
\* lattice units; Web Mercator stretches latitude more than longitude
MercatorX == 1
MercatorY == 2
DPI == 300

output_path == "map_visualization.png"

\* the keys of the polygons dict in iteration order; the loop body treats
\* every row alike, so two of the four rows are kept
RegionNames == <<"400 woningen", "800 woningen">>

----------------------------------------------------------------------------
(* Exact arithmetic helpers *)

Abs(n) == IF n < 0 THEN 0 - n ELSE n

RECURSIVE GCD(_, _)
GCD(a, b) == IF b = 0 THEN a ELSE GCD(b, a % b)

\* the rational n/d (d > 0) in lowest terms
Frac(n, d) == LET g == GCD(Abs(n), d) IN <<n \div g, d \div g>>

----------------------------------------------------------------------------
(* Font fallback, lines 23-37 *)

FontCalls ==
    [FONT_LOGO  |-> <<"Pilat Compressed", "Franklin Gothic Demi Cond",
                      "Gill Sans MT Ext Condensed Bold", "Arial">>,
     FONT_TITLE |-> <<"Pilat Condensed", "Franklin Gothic Medium Cond",
                      "Gill Sans MT Condensed", "Arial">>,
     FONT_BODY  |-> <<"Lyon Text", "Georgia">>,
     FONT_UI    |-> <<"GT America", "Gill Sans MT", "Franklin Gothic Book",
                      "Arial">>,
     FONT_MONO  |-> <<"GT America Mono", "Consolas", "DejaVu Sans Mono">>]

FontKeys == DOMAIN FontCalls

FontNames == UNION {{FontCalls[k][i] : i \in DOMAIN FontCalls[k]} : k \in FontKeys}

\* the for loop of find_font from position i on
RECURSIVE FindFrom(_, _, _)
FindFrom(names, avail, i) ==
    IF i > Len(names) THEN names[Len(names)]
    ELSE IF names[i] \in avail THEN names[i]
    ELSE FindFrom(names, avail, i + 1)

\* variant: falls back to the first name instead of the last
find_font_default_first(names, avail) ==
    IF \E i \in DOMAIN names : names[i] \in avail
    THEN FindFrom(names, avail, 1)
    ELSE names[1]

find_font(names, avail) == FindFrom(names, avail, 1)

----------------------------------------------------------------------------
(* Geometry: shapely / geopandas operations used by the script *)

\* Polygon(coords): the closed ring of a rectangle given by two corners
RectRing(x1, y1, x2, y2) ==
    <<<<x1, y1>>, <<x2, y1>>, <<x2, y2>>, <<x1, y2>>, <<x1, y1>>>>

RECURSIVE Shoelace(_, _)
Shoelace(ring, i) ==
    IF i >= Len(ring) THEN 0
    ELSE ring[i][1] * ring[i + 1][2] - ring[i + 1][1] * ring[i][2]
         + Shoelace(ring, i + 1)

\* variant: the closing edge of the ring is left out of the sum
PolygonAreaOpenRing(ring) ==
    Abs(Shoelace(SubSeq(ring, 1, Len(ring) - 1), 1)) \div 2

\* row['geometry'].area
PolygonArea(ring) == Abs(Shoelace(ring, 1)) \div 2

SetMin(S) == CHOOSE m \in S : \A n \in S : m <= n
SetMax(S) == CHOOSE m \in S : \A n \in S : m >= n
Xs(ring) == {ring[i][1] : i \in DOMAIN ring}
Ys(ring) == {ring[i][2] : i \in DOMAIN ring}

\* the closed polygon contains the lattice point p
ContainsPoint(ring, p) ==
    /\ SetMin(Xs(ring)) <= p[1] /\ p[1] <= SetMax(Xs(ring))
    /\ SetMin(Ys(ring)) <= p[2] /\ p[2] <= SetMax(Ys(ring))

\* variant: cells along the polygon's boundary are not counted
ContainsCellStrict(ring, c) ==
    /\ SetMin(Xs(ring)) < c[1] /\ c[1] + 1 < SetMax(Xs(ring))
    /\ SetMin(Ys(ring)) < c[2] /\ c[2] + 1 < SetMax(Ys(ring))

\* the polygon contains the unit cell with lower-left corner c
ContainsCell(ring, c) ==
    ContainsPoint(ring, c) /\ ContainsPoint(ring, <<c[1] + 1, c[2] + 1>>)

\* to_crs(epsg=3857) on one coordinate: lon/lat degrees to metres
Project(p) == <<MercatorX * p[1], MercatorY * p[2]>>

ProjectRing(ring) == [i \in DOMAIN ring |-> Project(ring[i])]

\* point.buffer(r): the polygonal disc of radius r around p
Buffer(p, r) ==
    {c \in ((p[1] - r)..(p[1] + r - 1)) \X ((p[2] - r)..(p[2] + r - 1)) :
        (2 * (c[1] - p[1]) + 1) * (2 * (c[1] - p[1]) + 1)
        + (2 * (c[2] - p[2]) + 1) * (2 * (c[2] - p[2]) + 1) <= 4 * r * r}

Corners(cells) ==
    UNION {{<<c[1], c[2]>>, <<c[1] + 1, c[2]>>,
            <<c[1], c[2] + 1>>, <<c[1] + 1, c[2] + 1>>} : c \in cells}

\* polygon.intersection(zone): the shared cells and the shared lattice
\* points (a contact along the boundaries shares points but no cell)
Intersection(ring, zone) ==
    [cells |-> {c \in zone : ContainsCell(ring, c)},
     pts   |-> {p \in Corners(zone) : ContainsPoint(ring, p)}]

is_empty(g) == g.pts = {}

area(g) == Cardinality(g.cells)

\* sum of the k-th coordinate over a set of lattice points, value by value
RECURSIVE SumRange(_, _, _, _)
SumRange(S, k, v, hi) ==
    IF v > hi THEN 0
    ELSE v * Cardinality({e \in S : e[k] = v}) + SumRange(S, k, v + 1, hi)

CoordSum(S, k) ==
    SumRange(S, k, SetMin({e[k] : e \in S}), SetMax({e[k] : e \in S}))

\* geometry.centroid: of the areal part if there is one (the mean of the
\* cell centres), else of the points
centroid(g) ==
    IF g.cells # {}
    THEN [x |-> Frac(2 * CoordSum(g.cells, 1) + Cardinality(g.cells),
                     2 * Cardinality(g.cells)),
          y |-> Frac(2 * CoordSum(g.cells, 2) + Cardinality(g.cells),
                     2 * Cardinality(g.cells))]
    ELSE [x |-> Frac(CoordSum(g.pts, 1), Cardinality(g.pts)),
          y |-> Frac(CoordSum(g.pts, 2), Cardinality(g.pts))]

----------------------------------------------------------------------------
(* Percentage label of one row, lines 182-192 *)

\* variant: the area test is missing
HasOverlapNonEmpty(g) == ~is_empty(g)

\* line 183
HasOverlap(g) == ~is_empty(g) /\ area(g) > 0

\* variant: the ratio is not scaled to a percentage
PercentageNoScale(g, ring) == Frac(area(g), PolygonArea(ring))

\* variant: the ratio is taken the wrong way round
PercentageInverted(g, ring) == Frac(100 * PolygonArea(ring), area(g))

\* line 184: (intersection.area / row['geometry'].area) * 100
Percentage(g, ring) == Frac(100 * area(g), PolygonArea(ring))

\* round-half-even to an integer, as the .0f presentation type does
RoundHalfEven(p) ==
    LET q == p[1] \div p[2]
        r == p[1] % p[2]
    IN  IF 2 * r < p[2] THEN q
        ELSE IF 2 * r > p[2] THEN q + 1
        ELSE IF q % 2 = 0 THEN q ELSE q + 1

\* f'{percentage:.0f}%'
FormatLabel(p) == ToString(RoundHalfEven(p)) \o "%"

\* lines 183-185 for a computed intersection
Result(intersection, ring) ==
    IF HasOverlap(intersection)
    THEN [present |-> TRUE,
          percentage |-> Percentage(intersection, ring),
          centroid |-> centroid(intersection)]
    ELSE [present |-> FALSE]

\* what the loop body computes for one row against the zone; the
\* intersection is computed once (line 182) and then used
Coverage(ring, zone) ==
    CHOOSE r \in {Result(intersection, ring) :
                     intersection \in {Intersection(ring, zone)}} : TRUE

----------------------------------------------------------------------------
(* Inputs: the literals of the DATA section, drawn from a bounded domain *)

LonVals == (0..MaxLon) \cup {FarLon}
LatVals == 0..MaxLat

RectRings ==
    {RectRing(x1, y1, x2, y2) :
        <<x1, y1, x2, y2>> \in
            {q \in LonVals \X LatVals \X LonVals \X LatVals :
                q[1] < q[3] /\ q[2] < q[4]}}

GoatPoints == ((0 - MaxGoat)..1) \X ((0 - 1)..MaxGoat)

Names == {RegionNames[i] : i \in DOMAIN RegionNames}

\* fonts that ship with the plotting library
BundledFonts == {"DejaVu Sans Mono"}

\* the file at output_path before the run: absent, or left by an earlier run
NoFile == [path |-> output_path, exists |-> FALSE, fresh |-> FALSE, dpi |-> 0]
StaleFile == [path |-> output_path, exists |-> TRUE, fresh |-> FALSE, dpi |-> 0]

InitRun ==
    /\ pc = "load"
    /\ fonts = [k \in FontKeys |-> ""]
    /\ gdf_polygons_mercator = [crs |-> "none", rows |-> <<>>]
    /\ goat_point = [crs |-> "none", xy |-> <<0, 0>>]
    /\ circle_geometry = [crs |-> "none", cells |-> {}]
    /\ idx = 0
    /\ ax_texts = <<>>
    /\ computedOn = {}
    /\ outfile \in {NoFile, StaleFile}
    /\ writes = 0
    /\ stdout = <<>>
    /\ log = <<>>
    /\ failed = FALSE

Init ==
    /\ InitRun
    /\ available = BundledFonts
    /\ polygons \in [Names -> [coords : RectRings]]
    /\ GOAT_FARM \in GoatPoints

\* every map and file state, the goat farm at the origin
RunInit ==
    /\ InitRun
    /\ available = BundledFonts
    /\ polygons \in [Names -> [coords : RectRings]]
    /\ GOAT_FARM = <<0, 0>>

\* every set of installed fonts, one fixed map
FontInit ==
    /\ InitRun
    /\ available \in SUBSET FontNames
    /\ polygons = [n \in Names |-> [coords |-> RectRing(0, 0, 1, 1)]]
    /\ GOAT_FARM = <<0, 0>>
    /\ outfile = NoFile

----------------------------------------------------------------------------
(* The script, top to bottom *)

\* lines 23-105: font resolution and the constant tables
LoadConstants ==
    /\ pc = "load"
    /\ fonts' = [k \in FontKeys |-> find_font(FontCalls[k], available)]
    /\ log' = Append(log, "load")
    /\ pc' = "build"
    /\ UNCHANGED <<available, polygons, GOAT_FARM, gdf_polygons_mercator,
                   goat_point, circle_geometry, idx, ax_texts, computedOn,
                   outfile, writes, stdout, failed>>

\* variant: the frames are used as built, without to_crs
ReprojectKeepsLonLat ==
    /\ pc = "build"
    /\ gdf_polygons_mercator' =
         [crs  |-> "EPSG:4326",
          rows |-> [i \in DOMAIN RegionNames |->
                      [name |-> RegionNames[i],
                       geometry |-> polygons[RegionNames[i]].coords]]]
    /\ goat_point' = [crs |-> "EPSG:4326", xy |-> GOAT_FARM]
    /\ log' = Append(log, "reproject")
    /\ pc' = "buffer"
    /\ UNCHANGED <<available, fonts, polygons, GOAT_FARM, circle_geometry, idx,
                   ax_texts, computedOn, outfile, writes, stdout, failed>>

\* lines 112-127: Polygon(), GeoDataFrame(crs='EPSG:4326').to_crs(epsg=3857)
Reproject ==
    /\ pc = "build"
    /\ gdf_polygons_mercator' =
         [crs  |-> "EPSG:3857",
          rows |-> [i \in DOMAIN RegionNames |->
                      [name |-> RegionNames[i],
                       geometry |-> ProjectRing(polygons[RegionNames[i]].coords)]]]
    /\ goat_point' = [crs |-> "EPSG:3857", xy |-> Project(GOAT_FARM)]
    /\ log' = Append(log, "reproject")
    /\ pc' = "buffer"
    /\ UNCHANGED <<available, fonts, polygons, GOAT_FARM, circle_geometry, idx,
                   ax_texts, computedOn, outfile, writes, stdout, failed>>

\* lines 112-127 when the geometry library raises: nothing catches it
ReprojectFails ==
    /\ pc = "build"
    /\ failed' = TRUE
    /\ pc' = "crashed"
    /\ UNCHANGED <<available, fonts, polygons, GOAT_FARM, gdf_polygons_mercator,
                   goat_point, circle_geometry, idx, ax_texts, computedOn,
                   outfile, writes, stdout, log>>

\* lines 129-130
BufferZone ==
    /\ pc = "buffer"
    /\ circle_geometry' = [crs |-> goat_point.crs,
                           cells |-> Buffer(goat_point.xy, BufferRadius)]
    /\ pc' = "figure"
    /\ UNCHANGED <<available, fonts, polygons, GOAT_FARM, gdf_polygons_mercator,
                   goat_point, idx, ax_texts, computedOn, outfile, writes,
                   stdout, log, failed>>

\* lines 136-163: figure and axes; the iterrows loop starts at the first row
CreateFigure ==
    /\ pc = "figure"
    /\ idx' = 1
    /\ log' = Append(log, "render")
    /\ pc' = "render"
    /\ UNCHANGED <<available, fonts, polygons, GOAT_FARM, gdf_polygons_mercator,
                   goat_point, circle_geometry, ax_texts, computedOn, outfile,
                   writes, stdout, failed>>

\* lines 171-192: one iteration of the loop over the rows
RenderRegion ==
    /\ pc = "render"
    /\ idx <= Len(gdf_polygons_mercator.rows)
    /\ \E row \in {gdf_polygons_mercator.rows[idx]} :
       \E cov \in {Coverage(row.geometry, circle_geometry.cells)} :
          ax_texts' =
             IF cov.present
             THEN Append(ax_texts,
                         [region |-> row.name,
                          x |-> cov.centroid.x,
                          y |-> cov.centroid.y,
                          s |-> FormatLabel(cov.percentage),
                          percentage |-> cov.percentage,
                          fontfamily |-> fonts.FONT_UI])
             ELSE ax_texts
    /\ computedOn' = computedOn \cup
                       {<<gdf_polygons_mercator.crs, circle_geometry.crs>>}
    /\ idx' = idx + 1
    /\ UNCHANGED <<pc, available, fonts, polygons, GOAT_FARM,
                   gdf_polygons_mercator, goat_point, circle_geometry, outfile,
                   writes, stdout, log, failed>>

\* lines 194-222: circle, markers, cx.add_basemap, axis limits
AddBasemap ==
    /\ pc = "render"
    /\ idx > Len(gdf_polygons_mercator.rows)
    /\ pc' = "decorate"
    /\ UNCHANGED <<available, fonts, polygons, GOAT_FARM, gdf_polygons_mercator,
                   goat_point, circle_geometry, idx, ax_texts, computedOn,
                   outfile, writes, stdout, log, failed>>

\* variant: the tile fetch failure is swallowed and the script goes on
AddBasemapFailsCaught ==
    /\ pc = "render"
    /\ idx > Len(gdf_polygons_mercator.rows)
    /\ failed' = TRUE
    /\ pc' = "decorate"
    /\ UNCHANGED <<available, fonts, polygons, GOAT_FARM, gdf_polygons_mercator,
                   goat_point, circle_geometry, idx, ax_texts, computedOn,
                   outfile, writes, stdout, log>>

\* lines 211-212 when the tile fetch raises: nothing catches it
AddBasemapFails ==
    /\ pc = "render"
    /\ idx > Len(gdf_polygons_mercator.rows)
    /\ failed' = TRUE
    /\ pc' = "crashed"
    /\ UNCHANGED <<available, fonts, polygons, GOAT_FARM, gdf_polygons_mercator,
                   goat_point, circle_geometry, idx, ax_texts, computedOn,
                   outfile, writes, stdout, log>>

\* lines 228-323: header, legend and source line
DrawHeaderLegend ==
    /\ pc = "decorate"
    /\ pc' = "save"
    /\ UNCHANGED <<available, fonts, polygons, GOAT_FARM, gdf_polygons_mercator,
                   goat_point, circle_geometry, idx, ax_texts, computedOn,
                   outfile, writes, stdout, log, failed>>

\* variant: an existing file is kept instead of overwritten
SaveFigUnlessExists ==
    /\ pc = "save"
    /\ outfile' = IF outfile.exists THEN outfile
                  ELSE [path |-> output_path, exists |-> TRUE, fresh |-> TRUE,
                        dpi |-> DPI]
    /\ writes' = IF outfile.exists THEN writes ELSE writes + 1
    /\ log' = Append(log, "save")
    /\ pc' = "print"
    /\ UNCHANGED <<available, fonts, polygons, GOAT_FARM, gdf_polygons_mercator,
                   goat_point, circle_geometry, idx, ax_texts, computedOn,
                   stdout, failed>>

\* lines 329-330: plt.savefig(output_path, dpi=300, ...)
SaveFig ==
    /\ pc = "save"
    /\ outfile' = [path |-> output_path, exists |-> TRUE, fresh |-> TRUE,
                   dpi |-> DPI]
    /\ writes' = writes + 1
    /\ log' = Append(log, "save")
    /\ pc' = "print"
    /\ UNCHANGED <<available, fonts, polygons, GOAT_FARM, gdf_polygons_mercator,
                   goat_point, circle_geometry, idx, ax_texts, computedOn,
                   stdout, failed>>

\* line 331
PrintSaved ==
    /\ pc = "print"
    /\ stdout' = Append(stdout, "Map saved to: " \o output_path)
    /\ log' = Append(log, "print")
    /\ pc' = "close"
    /\ UNCHANGED <<available, fonts, polygons, GOAT_FARM, gdf_polygons_mercator,
                   goat_point, circle_geometry, idx, ax_texts, computedOn,
                   outfile, writes, failed>>

\* line 332 and interpreter exit
Close ==
    /\ pc = "close"
    /\ log' = Append(log, "exit")
    /\ pc' = "done"
    /\ UNCHANGED <<available, fonts, polygons, GOAT_FARM, gdf_polygons_mercator,
                   goat_point, circle_geometry, idx, ax_texts, computedOn,
                   outfile, writes, stdout, failed>>

Next ==
    \/ LoadConstants
    \/ Reproject
    \/ ReprojectFails
    \/ BufferZone
    \/ CreateFigure
    \/ RenderRegion
    \/ AddBasemap
    \/ AddBasemapFails
    \/ DrawHeaderLegend
    \/ SaveFig
    \/ PrintSaved
    \/ Close

Spec == Init /\ [][Next]_vars

FontSpec == FontInit /\ [][Next]_vars

\* the interpreter runs the script to its end or to an uncaught exception
FairSpec == RunInit /\ [][Next]_vars /\ WF_vars(Next)

----------------------------------------------------------------------------
(* Notions used by the properties *)

RowsDone == IF pc \in {"load", "build", "buffer", "figure"} THEN 0 ELSE idx - 1

Rows == gdf_polygons_mercator.rows

Zone == circle_geometry.cells

RECURSIVE SumOver(_, _)
SumOver(S, k) ==
    IF S = {} THEN 0
    ELSE LET e == CHOOSE e \in S : TRUE IN e[k] + SumOver(S \ {e}, k)

TextsOf(name) == {j \in DOMAIN ax_texts : ax_texts[j].region = name}

\* the unit cells a rectangle ring covers
RegionCells(ring) ==
    (SetMin(Xs(ring))..(SetMax(Xs(ring)) - 1))
        \X (SetMin(Ys(ring))..(SetMax(Ys(ring)) - 1))

SharedCells(ring, zone) == {c \in zone : c \in RegionCells(ring)}

\* width times height of a rectangle ring
RegionArea(ring) ==
    (SetMax(Xs(ring)) - SetMin(Xs(ring))) * (SetMax(Ys(ring)) - SetMin(Ys(ring)))

Touches(ring, zone) == \E p \in Corners(zone) : ContainsPoint(ring, p)

MaxShift == 1

\* shifts by MaxShift along either axis or both, in either direction
Offsets ==
    ({0 - MaxShift, 0, MaxShift} \X {0 - MaxShift, 0, MaxShift}) \ {<<0, 0>>}

TranslateRing(ring, d) ==
    [i \in DOMAIN ring |-> <<ring[i][1] + d[1], ring[i][2] + d[2]>>]

TranslateCells(cells, d) == {<<c[1] + d[1], c[2] + d[2]>> : c \in cells}

----------------------------------------------------------------------------
(* C1: a row whose overlap with the zone has positive area gets exactly one
   label; its percentage is 100 * area(overlap) / area(region) and its
   anchor is the centroid of the overlap. *)
C1_OneResultWithRatioAndCentroid ==
    \A i \in 1..RowsDone :
        LET ring == Rows[i].geometry
            sh   == SharedCells(ring, Zone)
            n    == Cardinality(sh)
        IN  n > 0 =>
              /\ Cardinality(TextsOf(Rows[i].name)) = 1
              /\ \A j \in TextsOf(Rows[i].name) :
                    LET t == ax_texts[j] IN
                    /\ t.percentage[1] * RegionArea(ring)
                         = 100 * n * t.percentage[2]
                    /\ t.x[1] * 2 * n
                         = t.x[2] * SumOver({<<2 * c[1] + 1, c>> : c \in sh}, 1)
                    /\ t.y[1] * 2 * n
                         = t.y[2] * SumOver({<<2 * c[2] + 1, c>> : c \in sh}, 1)

C1_Witness ==
    /\ RowsDone = Len(RegionNames)
    /\ Len(ax_texts) = 2
    /\ ax_texts[1].percentage # ax_texts[2].percentage
    /\ ax_texts[1].x # ax_texts[2].x

(* C2: a row disjoint from the zone, or meeting it only along the boundary
   (overlap of zero area), gets no label. *)
C2_NoResultWithoutArea ==
    \A i \in 1..RowsDone :
        SharedCells(Rows[i].geometry, Zone) = {} => TextsOf(Rows[i].name) = {}

C2_Witness ==
    /\ RowsDone = Len(RegionNames)
    /\ Touches(Rows[1].geometry, Zone)
    /\ SharedCells(Rows[1].geometry, Zone) = {}
    /\ ~Touches(Rows[2].geometry, Zone)
    /\ ax_texts = <<>>

C6_RunWritesOnceInOrder ==
    /\ <>(failed \/ pc = "done")
    /\ [](pc = "done" =>
            /\ writes = 1
            /\ outfile = [path |-> "map_visualization.png", exists |-> TRUE,
                          fresh |-> TRUE, dpi |-> 300]
            /\ log = <<"load", "reproject", "render", "save", "print", "exit">>
            /\ stdout = <<"Map saved to: map_visualization.png">>)
    /\ [](stdout # <<>> => writes = 1)
    /\ [](writes <= 1)

C6_Witness ==
    /\ pc = "done"
    /\ ~failed
    /\ writes = 1
    /\ Len(stdout) = 1

(* C7: a failure of the geometry library or of the basemap fetch is not
   caught or retried: the run stays stopped, the output file is left as it
   was and nothing is printed. *)
C7_FailureLeavesNoOutput ==
    failed =>
        /\ pc = "crashed"
        /\ writes = 0
        /\ outfile \in {NoFile, StaleFile}
        /\ stdout = <<>>

C7_Witness ==
    /\ failed
    /\ pc = "crashed"
    /\ ax_texts # <<>>
    /\ outfile = StaleFile

(* C8: whenever an intersection is computed, the rows and the zone are in
   EPSG:3857, the rows being the reprojected polygons and the zone the
   buffer of the reprojected goat-farm point; nothing is computed on
   longitude/latitude geometry. *)
C8_ReprojectBeforeCoverage ==
    /\ computedOn \subseteq {<<"EPSG:3857", "EPSG:3857">>}
    /\ pc = "render" =>
         /\ gdf_polygons_mercator.crs = "EPSG:3857"
         /\ circle_geometry.crs = "EPSG:3857"
         /\ \A i \in DOMAIN Rows :
               \A k \in DOMAIN Rows[i].geometry :
                   Rows[i].geometry[k] =
                       <<polygons[Rows[i].name].coords[k][1],
                         2 * polygons[Rows[i].name].coords[k][2]>>
         /\ Zone =
              {c \in ((GOAT_FARM[1] - 2)..(GOAT_FARM[1] + 1))
                       \X ((2 * GOAT_FARM[2] - 2)..(2 * GOAT_FARM[2] + 1)) :
                  (2 * (c[1] - GOAT_FARM[1]) + 1) * (2 * (c[1] - GOAT_FARM[1]) + 1)
                  + (2 * (c[2] - 2 * GOAT_FARM[2]) + 1)
                      * (2 * (c[2] - 2 * GOAT_FARM[2]) + 1) <= 16}

C8_Witness ==
    /\ computedOn = {<<"EPSG:3857", "EPSG:3857">>}
    /\ pc = "render"
    /\ GOAT_FARM[2] # 0
    /\ ax_texts # <<>>

(* C9: each font constant is the first of its preference list that is
   installed, or the last of the list when none is; it is always one of the
   names of the list. *)
C9_FindFontFirstInstalledElseLast ==
    pc # "load" =>
        \A k \in FontKeys :
            LET names == FontCalls[k]
                r     == fonts[k]
            IN  /\ \E i \in DOMAIN names : names[i] = r
                /\ \/ \E i \in DOMAIN names :
                        /\ names[i] = r
                        /\ r \in available
                        /\ \A j \in 1..(i - 1) : names[j] \notin available
                   \/ /\ \A i \in DOMAIN names : names[i] \notin available
                      /\ r = names[Len(names)]

C9_Witness ==
    /\ pc # "load"
    /\ fonts.FONT_UI = "Franklin Gothic Book"
    /\ "Arial" \in available
    /\ fonts.FONT_BODY = "Georgia"
    /\ "Georgia" \notin available

====
